---- MODULE Spec2Model ----
(***************************************************************************)
(* Model of the netdata python.d sensor collectors:                        *)
(*   liquidctl.chart.py  (unit table, chart prototypes, _normalize,        *)
(*                        ChartBuilder, Service.get_data)                  *)
(*   sensors.chart.py    (_cleanup, Service.update_sensors_charts)         *)
(*                                                                         *)
(* Strings that the code inspects character by character are sequences of  *)
(* one-character strings; identifiers that the code only concatenates and  *)
(* compares are TLA+ strings built from them with Str.                     *)
(***************************************************************************)
EXTENDS Integers, Sequences, FiniteSets, TLC

\* Longest label enumerated exhaustively for _normalize.
MaxLen == 4

\* Most sample words of one label enumerated for _normalize.
MaxWords == 3

\* Most records (devices plus items, chips plus features) of one backend report.
MaxRecords == 4

(***************************************************************************)
(* Optional values (Python None / a value).                                *)
(***************************************************************************)
None == <<>>
Some(x) == <<x>>
IsNone(o) == o = <<>>
The(o) == o[1]

(***************************************************************************)
(* Characters and strings.                                                 *)
(***************************************************************************)
FoldTable ==
  [A |-> "a", B |-> "b", C |-> "c", D |-> "d", E |-> "e", F |-> "f", G |-> "g",
   H |-> "h", I |-> "i", J |-> "j", K |-> "k", L |-> "l", M |-> "m", N |-> "n",
   O |-> "o", P |-> "p", Q |-> "q", R |-> "r", S |-> "s", T |-> "t", U |-> "u",
   V |-> "v", W |-> "w", X |-> "x", Y |-> "y", Z |-> "z"]

\* [a-z]
Letters == {FoldTable[c] : c \in DOMAIN FoldTable}

\* [0-9]
Digits == {"0", "1", "2", "3", "4", "5", "6", "7", "8", "9"}

\* the characters str.split() splits on
Whitespace == {" ", "\t"}

\* str.casefold(), one character
FoldChar(c) == IF c \in DOMAIN FoldTable THEN FoldTable[c] ELSE c

\* str.casefold()
casefold(s) == [i \in 1..Len(s) |-> FoldChar(s[i])]

\* a sequence of characters as one string
RECURSIVE Str(_)
Str(s) == IF s = <<>> THEN "" ELSE Head(s) \o Str(Tail(s))

\* length of the longest run of characters of cs in s that starts at i
\* (a greedy  [cs]*  at position i)
RECURSIVE RunLen(_, _, _)
RunLen(s, i, cs) ==
  IF i > Len(s) \/ s[i] \notin cs THEN 0 ELSE 1 + RunLen(s, i + 1, cs)

\* str.split(): the maximal runs of non-whitespace characters, in order
RECURSIVE SplitFrom(_, _)
SplitFrom(s, i) ==
  IF i > Len(s) THEN <<>>
  ELSE IF s[i] \in Whitespace THEN SplitFrom(s, i + 1)
  ELSE LET n == RunLen(s, i, {s[j] : j \in 1..Len(s)} \ Whitespace)
       IN  <<SubSeq(s, i, i + n - 1)>> \o SplitFrom(s, i + n)

split(s) == SplitFrom(s, 1)

\* sep.join(words)
RECURSIVE join(_, _)
join(sep, words) ==
  IF words = <<>> THEN <<>>
  ELSE IF Len(words) = 1 THEN words[1]
  ELSE words[1] \o sep \o join(sep, Tail(words))

\* [word for word in words if word not in skip]
RECURSIVE DropWords(_, _)
DropWords(words, skip) ==
  IF words = <<>> THEN <<>>
  ELSE IF \E k \in 1..Len(skip) : skip[k] = Head(words)
       THEN DropWords(Tail(words), skip)
       ELSE <<Head(words)>> \o DropWords(Tail(words), skip)

\* re.sub(r'([a-z]+) ([0-9]+)', r'\1\2', s), scanning from position i
RECURSIVE SubLetterDigit(_, _)
SubLetterDigit(s, i) ==
  IF i > Len(s) THEN <<>>
  ELSE LET a == RunLen(s, i, Letters)
           b == IF a > 0 /\ i + a <= Len(s) /\ s[i + a] = " "
                THEN RunLen(s, i + a + 1, Digits) ELSE 0
       IN  IF b > 0
           THEN SubSeq(s, i, i + a - 1) \o SubSeq(s, i + a + 1, i + a + b)
                  \o SubLetterDigit(s, i + a + 1 + b)
           ELSE <<s[i]>> \o SubLetterDigit(s, i + 1)

\* re.sub(r'\+([0-9.]+v)', r'\1', s), scanning from position i
RECURSIVE SubPlus(_, _)
SubPlus(s, i) ==
  IF i > Len(s) THEN <<>>
  ELSE LET a == IF s[i] = "+" THEN RunLen(s, i + 1, Digits \cup {"."}) ELSE 0
           hit == a > 0 /\ i + a + 1 <= Len(s) /\ s[i + a + 1] = "v"
       IN  IF hit
           THEN SubSeq(s, i + 1, i + a + 1) \o SubPlus(s, i + a + 2)
           ELSE <<s[i]>> \o SubPlus(s, i + 1)

\* re.sub(r'([0-9]+)\.([0-9]+)v', r'\1v\2', s), scanning from position i
RECURSIVE SubPoint(_, _)
SubPoint(s, i) ==
  IF i > Len(s) THEN <<>>
  ELSE LET a == RunLen(s, i, Digits)
           b == IF a > 0 /\ i + a <= Len(s) /\ s[i + a] = "."
                THEN RunLen(s, i + a + 1, Digits) ELSE 0
           hit == b > 0 /\ i + a + b + 1 <= Len(s) /\ s[i + a + b + 1] = "v"
       IN  IF hit
           THEN SubSeq(s, i, i + a - 1) \o <<"v">>
                  \o SubSeq(s, i + a + 1, i + a + b) \o SubPoint(s, i + a + b + 2)
           ELSE <<s[i]>> \o SubPoint(s, i + 1)

\* re.sub(r'[^a-z0-9]+', '-', s), scanning from position i
RECURSIVE SubOther(_, _)
SubOther(s, i) ==
  IF i > Len(s) THEN <<>>
  ELSE LET a == RunLen(s, i, {s[j] : j \in 1..Len(s)} \ (Letters \cup Digits))
       IN  IF a > 0 THEN <<"-">> \o SubOther(s, i + a)
           ELSE <<s[i]>> \o SubOther(s, i + 1)

(***************************************************************************)
(* Exact rationals (fractions.Fraction) and the numbers of the payload.    *)
(* A number is a pair num/den with den > 0; den = 0 stands for the IEEE    *)
(* infinity that json.loads accepts as "Infinity".                         *)
(***************************************************************************)
Fraction(n) == [num |-> n, den |-> 1]

Inf == [num |-> 1, den |-> 0]

IsFinite(v) == v.den > 0

\* v * ratio
Times(v, ratio) == [num |-> v.num * ratio.num, den |-> v.den * ratio.den]

\* lo <= v  and  v <= hi  for an integer bound and a number
LeqInt(lo, v) == IF IsFinite(v) THEN lo * v.den <= v.num ELSE v.num > 0
GeqInt(hi, v) == IF IsFinite(v) THEN v.num <= hi * v.den ELSE v.num < 0

\* floor(a / b) for b > 0 is a \div b; int() truncates toward zero
Trunc(v) ==
  IF v.num >= 0 THEN v.num \div v.den ELSE -((-v.num) \div v.den)

(***************************************************************************)
(* ChartType, InputUnit, ChartProto and the two static tables.             *)
(***************************************************************************)
ChartType ==
  [TEMPERATURE |-> 1, FAN |-> 2, POWER |-> 3, VOLTAGE |-> 4, CURRENT |-> 5,
   EFFICIENCY |-> 6, TIME |-> 7]

InputUnit(type, name) == [chart_type |-> type, name |-> name, base_ratio |-> None]

INPUT_UNITS ==
  << InputUnit(ChartType.TEMPERATURE, "°C"),
     InputUnit(ChartType.FAN, "rpm"),
     InputUnit(ChartType.POWER, "W"),
     InputUnit(ChartType.VOLTAGE, "V"),
     InputUnit(ChartType.CURRENT, "A"),
     InputUnit(ChartType.EFFICIENCY, "%"),
     InputUnit(ChartType.TIME, "s") >>

INPUT_UNIT_FROM_STR ==
  [n \in {INPUT_UNITS[k].name : k \in 1..Len(INPUT_UNITS)} |->
     INPUT_UNITS[CHOOSE k \in 1..Len(INPUT_UNITS) : INPUT_UNITS[k].name = n]]

get_base_ratio(unit) ==
  IF ~IsNone(unit.base_ratio) THEN The(unit.base_ratio) ELSE Fraction(1)

CHART_PROTO ==
  << [type |-> ChartType.TEMPERATURE, name |-> "temperature",
      title |-> "Temperature", unit_name |-> "Celsius",
      store_ratio |-> Some(Fraction(1000)), limits |-> Some(<<-200, 200>>),
      skip_words |-> Some(<< <<"t","e","m","p","e","r","a","t","u","r","e">> >>)],
     [type |-> ChartType.FAN, name |-> "fan",
      title |-> "Fans speed", unit_name |-> "Rotations/min",
      store_ratio |-> None, limits |-> Some(<<0, 10000>>),
      skip_words |-> Some(<< <<"s","p","e","e","d">> >>)],
     [type |-> ChartType.POWER, name |-> "power",
      title |-> "Power", unit_name |-> "Watt",
      store_ratio |-> Some(Fraction(1000)), limits |-> Some(<<0, 10000>>),
      skip_words |-> Some(<< <<"p","o","w","e","r">> >>)],
     [type |-> ChartType.VOLTAGE, name |-> "voltage",
      title |-> "Voltage", unit_name |-> "Volt",
      store_ratio |-> Some(Fraction(1000)), limits |-> Some(<<0, 1000>>),
      skip_words |-> Some(<< <<"v","o","l","t","a","g","e">>, <<"r","a","i","l">> >>)],
     [type |-> ChartType.CURRENT, name |-> "current",
      title |-> "Current", unit_name |-> "Ampere",
      store_ratio |-> Some(Fraction(1000)), limits |-> Some(<<0, 1000>>),
      skip_words |-> Some(<< <<"c","u","r","r","e","n","t">> >>)],
     [type |-> ChartType.EFFICIENCY, name |-> "efficiency",
      title |-> "Efficiency", unit_name |-> "Percent",
      store_ratio |-> Some(Fraction(1000)), limits |-> Some(<<0, 100>>),
      skip_words |-> Some(<< <<"e","f","f","i","c","i","e","n","c","y">> >>)],
     [type |-> ChartType.TIME, name |-> "uptime",
      title |-> "Uptime", unit_name |-> "seconds",
      store_ratio |-> None, limits |-> None,
      skip_words |-> None] >>

CHART_PROTO_FROM_TYPE ==
  [t \in {CHART_PROTO[k].type : k \in 1..Len(CHART_PROTO)} |->
     CHART_PROTO[CHOOSE k \in 1..Len(CHART_PROTO) : CHART_PROTO[k].type = t]]

get_store_ratio(proto) ==
  IF ~IsNone(proto.store_ratio) THEN The(proto.store_ratio) ELSE Fraction(1)

validate_limits(proto, arg) ==
  IF ~IsNone(proto.limits)
  THEN LeqInt(The(proto.limits)[1], arg) /\ GeqInt(The(proto.limits)[2], arg)
  ELSE TRUE

from_unit(unit) == CHART_PROTO_FROM_TYPE[unit.chart_type]

(***************************************************************************)
(* Service._normalize                                                      *)
(***************************************************************************)
\* _normalize that joins letters and digits before it drops the skip words
_normalize_join_first(arg, proto) ==
  LET r0 == SubLetterDigit(casefold(arg), 1)
      r1 == IF ~IsNone(proto) /\ ~IsNone(The(proto).skip_words)
            THEN join(<<" ">>, DropWords(split(r0), The(The(proto).skip_words)))
            ELSE r0
  IN  SubOther(SubPoint(SubPlus(r1, 1), 1), 1)

_normalize(arg, proto) ==
  LET r0 == casefold(arg)
      r1 == IF ~IsNone(proto) /\ ~IsNone(The(proto).skip_words)
            THEN join(<<" ">>, DropWords(split(r0), The(The(proto).skip_words)))
            ELSE r0
      r2 == SubLetterDigit(r1, 1)
      r3 == SubPlus(r2, 1)
      r4 == SubPoint(r3, 1)
  IN  SubOther(r4, 1)

(***************************************************************************)
(* Device, Chart, ChartDataPoint and ChartBuilder.                         *)
(* data_points, a dict in insertion order, is a sequence of                *)
(* [chart, data] entries with pairwise different charts.                   *)
(***************************************************************************)
Device(id, name, label, bus, address) ==
  [id |-> id, name |-> name, label |-> label, bus |-> bus, address |-> address]

Chart(proto, device) == [proto |-> proto, device |-> device]

ChartDataPoint(dim_id, dim_label, value) ==
  [dim_id |-> dim_id, dim_label |-> dim_label, value |-> value]

\* make_chart_id that leaves the prototype's name out
make_chart_id_device(chart) == chart.device.id

make_chart_id(chart) == chart.device.id \o "_" \o chart.proto.name

make_dim_id(chart, data_point) ==
  chart.device.id \o "_" \o chart.proto.name \o "_" \o data_point.dim_id

\* self.service.priority, set in Service.__init__
priority == 60000

make_chart_priority(proto) == priority + proto.type

make_chart(chart, data) ==
  [options |-> [id |-> make_chart_id(chart), title |-> chart.proto.title,
                units |-> chart.proto.unit_name, family |-> chart.proto.name,
                context |-> "sensors." \o chart.proto.name, chart_type |-> "line"],
   labels |-> [sensor_id |-> chart.device.id, sensor_name |-> chart.device.name,
               sensor_bus |-> chart.device.bus,
               sensor_address |-> chart.device.address],
   lines |-> [k \in 1..Len(data) |->
                [id |-> make_dim_id(chart, data[k]), name |-> data[k].dim_label,
                 algorithm |-> "absolute",
                 multiplier |-> get_store_ratio(chart.proto).den,
                 divisor |-> get_store_ratio(chart.proto).num]],
   overrides |-> [type |-> "sensors",
                  name |-> "sensors." \o make_chart_id(chart)]]

submit(dp, proto, device, item_id, item_label, value) ==
  LET chart == Chart(proto, device)
      point == ChartDataPoint(item_id, item_label, value)
  IN  IF \E k \in 1..Len(dp) : dp[k].chart = chart
      THEN [k \in 1..Len(dp) |->
              IF dp[k].chart = chart
              THEN [dp[k] EXCEPT !.data = Append(@, point)]
              ELSE dp[k]]
      ELSE Append(dp, [chart |-> chart, data |-> <<point>>])

(***************************************************************************)
(* The host's chart registry (bases.charts): self.charts of a Service.     *)
(* A registry is a function from chart id to the chart object; calls is    *)
(* the number of add_chart calls the host has received per chart id.       *)
(***************************************************************************)
NoCharts == [id \in {} |-> 0]

\* chart_id in self.charts
HasChart(host, chart_id) == chart_id \in DOMAIN host.charts

\* self.charts.add_chart(options, labels=labels); the new chart has no dimension
add_chart(host, options, labels) ==
  LET new == [params |-> options, labels |-> labels, dimensions |-> <<>>]
      old == IF options.id \in DOMAIN host.calls THEN host.calls[options.id] ELSE 0
  IN  [charts |-> [id \in DOMAIN host.charts \cup {options.id} |->
                     IF id = options.id THEN new ELSE host.charts[id]],
       calls  |-> [id \in DOMAIN host.calls \cup {options.id} |->
                     IF id = options.id THEN old + 1 ELSE host.calls[id]]]

\* netdata_chart.add_dimension(dim), for each dim of lines in order
add_dimensions(host, chart_id, lines) ==
  [host EXCEPT !.charts[chart_id].dimensions = @ \o lines]

\* netdata_chart.params['priority'] = ...; netdata_chart.params.update(overrides)
set_params(host, chart_id, prio, overrides) ==
  [host EXCEPT !.charts[chart_id].params =
     [f \in DOMAIN @ \cup {"priority", "type", "name"} |->
        IF f = "priority" THEN prio
        ELSE IF f \in DOMAIN overrides THEN overrides[f] ELSE @[f]]]

\* build_chart without "if chart_id in self.charts: continue"
build_chart_again(host, entry) ==
  LET chart_spec == make_chart(entry.chart, entry.data)
  IN  set_params(
        add_dimensions(
          add_chart(host, chart_spec.options, chart_spec.labels),
          make_chart_id(entry.chart), chart_spec.lines),
        make_chart_id(entry.chart), make_chart_priority(entry.chart.proto),
        chart_spec.overrides)

\* build_chart that gives a chart it finds registered this poll's dimensions
build_chart_extend(host, entry) ==
  IF HasChart(host, make_chart_id(entry.chart))
  THEN add_dimensions(host, make_chart_id(entry.chart),
                      make_chart(entry.chart, entry.data).lines)
  ELSE build_chart_again(host, entry)

\* one iteration of the loop of ChartBuilder.build_charts
build_chart(host, entry) ==
  LET chart_id == make_chart_id(entry.chart)
      chart_spec == make_chart(entry.chart, entry.data)
  IN  IF HasChart(host, chart_id) THEN host
      ELSE set_params(
             add_dimensions(
               add_chart(host, chart_spec.options, chart_spec.labels),
               chart_id, chart_spec.lines),
             chart_id, make_chart_priority(entry.chart.proto),
             chart_spec.overrides)

\* ChartBuilder.build_charts
RECURSIVE build_charts_from(_, _, _)
build_charts_from(host, dp, k) ==
  IF k > Len(dp) THEN host
  ELSE build_charts_from(build_chart(host, dp[k]), dp, k + 1)

build_charts(host, dp) == build_charts_from(host, dp, 1)

\* the (dimension id, data point) pairs in the order build_data visits them
RECURSIVE Points(_, _)
Points(dp, k) ==
  IF k > Len(dp) THEN <<>>
  ELSE [j \in 1..Len(dp[k].data) |->
          [id |-> make_dim_id(dp[k].chart, dp[k].data[j]),
           scaled |-> Times(dp[k].data[j].value, get_store_ratio(dp[k].chart.proto))]]
       \o Points(dp, k + 1)

\* int(x)
int(x) == Trunc(x)

\* ChartBuilder.build_data: a later entry of the comprehension replaces an
\* earlier one with the same key; int() of an infinity raises OverflowError;
\* an empty dict gives None
build_data(dp) ==
  LET pts == Points(dp, 1)
      ids == {pts[j].id : j \in 1..Len(pts)}
      last(id) == CHOOSE j \in 1..Len(pts) :
                    /\ pts[j].id = id
                    /\ \A m \in (j + 1)..Len(pts) : pts[m].id # id
  IN  IF \E j \in 1..Len(pts) : ~IsFinite(pts[j].scaled)
      THEN [exc |-> Some("OverflowError"), value |-> None]
      ELSE IF ids = {} THEN [exc |-> None, value |-> None]
      ELSE [exc |-> None,
            value |-> Some([id \in ids |-> int(pts[last(id)].scaled)])]

(***************************************************************************)
(* liquidctl Service.  The backend's report ("payload") is                 *)
(*   [proc   |-> "ok" | "CalledProcessError" | "OSError",                  *)
(*    stdout |-> None (text that is not JSON) | Some(list of device_json)] *)
(* A device_json or an item is a record that may lack fields.              *)
(* A raised exception is Some(class name), no exception is None.           *)
(***************************************************************************)

\* os.path.basename
RECURSIVE LastSlash(_, _)
LastSlash(path, i) ==
  IF i = 0 \/ path[i] = "/" THEN i ELSE LastSlash(path, i - 1)

basename(path) == SubSeq(path, LastSlash(path, Len(path)) + 1, Len(path))

\* Service._run_cmd: any failure of subprocess.run becomes an ErrorException
_run_cmd(payload) ==
  IF payload.proc = "ok"
  THEN [exc |-> None, stdout |-> payload.stdout]
  ELSE [exc |-> Some("ErrorException"), stdout |-> None]

\* json.loads
json_loads(stdout) ==
  IF IsNone(stdout)
  THEN [exc |-> Some("JSONDecodeError"), value |-> <<>>]
  ELSE [exc |-> None, value |-> The(stdout)]

\* InputUnit.from_item
from_item(item) ==
  IF "unit" \notin DOMAIN item THEN [exc |-> Some("KeyError"), unit |-> None]
  ELSE IF item.unit \notin DOMAIN INPUT_UNIT_FROM_STR
       THEN [exc |-> Some("ErrorException"), unit |-> None]
       ELSE [exc |-> None, unit |-> Some(INPUT_UNIT_FROM_STR[item.unit])]

\* one iteration of "for item in device_json['status']" on the loop state
\* st = [exc, dp, seen, warnings]
process_item(st, device, item) ==
  LET u == from_item(item)
  IN  IF u.exc = Some("ErrorException")
      THEN [st EXCEPT !.warnings = @ + 1]
      ELSE IF ~IsNone(u.exc) THEN [st EXCEPT !.exc = u.exc]
      ELSE
        LET item_unit == The(u.unit)
            chart_proto == from_unit(item_unit)
        IN  IF "key" \notin DOMAIN item THEN [st EXCEPT !.exc = Some("KeyError")]
            ELSE IF "value" \notin DOMAIN item
                 THEN [st EXCEPT !.exc = Some("KeyError")]
            ELSE IF ~validate_limits(chart_proto, item.value)
                 THEN [st EXCEPT !.warnings = @ + 1]
            ELSE [st EXCEPT !.dp =
                    submit(@, chart_proto, device,
                           Str(_normalize(item.key, Some(chart_proto))),
                           Str(item.key),
                           Times(item.value, get_base_ratio(item_unit)))]

RECURSIVE process_items(_, _, _, _)
process_items(st, device, status, i) ==
  IF i > Len(status) \/ ~IsNone(st.exc) THEN st
  ELSE process_items(process_item(st, device, status[i]), device, status, i + 1)

\* device_id = self._normalize(device_label) + '-' + os.path.basename(address)
derive_device_id(device_json) ==
  Str(_normalize(device_json.description, None)) \o "-"
    \o Str(basename(device_json.address))

\* process_device without "assert device_id not in device_seen"
process_device_unchecked(st, device_json) ==
  IF \E f \in {"description", "address", "bus"} : f \notin DOMAIN device_json
  THEN [st EXCEPT !.exc = Some("KeyError")]
  ELSE
    LET device_label == device_json.description
        device_id == derive_device_id(device_json)
        device == Device(device_id, Str(_normalize(device_label, None)),
                         Str(device_label), device_json.bus,
                         Str(device_json.address))
    IN  IF "status" \notin DOMAIN device_json
        THEN [st EXCEPT !.exc = Some("KeyError"), !.seen = @ \cup {device_id}]
        ELSE process_items([st EXCEPT !.seen = @ \cup {device_id}],
                           device, device_json.status, 1)

\* one iteration of "for device_json in input"
process_device(st, device_json) ==
  IF \E f \in {"description", "address", "bus"} : f \notin DOMAIN device_json
  THEN [st EXCEPT !.exc = Some("KeyError")]
  ELSE
    LET device_label == device_json.description
        device_name == Str(_normalize(device_label, None))
        device_id == derive_device_id(device_json)
        device == Device(device_id, device_name, Str(device_label),
                         device_json.bus, Str(device_json.address))
    IN  IF device_id \in st.seen
        THEN [st EXCEPT !.exc = Some("AssertionError")]
        ELSE IF "status" \notin DOMAIN device_json
             THEN [st EXCEPT !.exc = Some("KeyError"), !.seen = @ \cup {device_id}]
        ELSE process_items([st EXCEPT !.seen = @ \cup {device_id}],
                           device, device_json.status, 1)

RECURSIVE process_devices(_, _, _)
process_devices(st, input, j) ==
  IF j > Len(input) \/ ~IsNone(st.exc) THEN st
  ELSE process_devices(process_device(st, input[j]), input, j + 1)

\* the end of Service._get_data, after the loops:
\* chart_builder.build_charts(); return chart_builder.build_data()
build_and_return(built, data, st) ==
  [exc |-> data.exc, value |-> data.value, host |-> built, dp |-> st.dp,
   warnings |-> st.warnings]

\* Service._get_data once the loops have ended in st
after_loops(host, st) ==
  IF ~IsNone(st.exc)
  THEN [exc |-> st.exc, value |-> None, host |-> host, dp |-> st.dp,
        warnings |-> st.warnings]
  ELSE build_and_return(build_charts(host, st.dp), build_data(st.dp), st)

\* Service._get_data once json.loads has returned input
after_loads(host, input) ==
  IF ~IsNone(input.exc)
  THEN [exc |-> input.exc, value |-> None, host |-> host, dp |-> <<>>,
        warnings |-> 0]
  ELSE after_loops(host,
         process_devices([exc |-> None, dp |-> <<>>, seen |-> {}, warnings |-> 0],
                         input.value, 1))

\* Service._get_data: [exc, value, host, dp, warnings]
_get_data(host, payload) ==
  LET run == _run_cmd(payload)
  IN  IF ~IsNone(run.exc)
      THEN [exc |-> run.exc, value |-> None, host |-> host, dp |-> <<>>,
            warnings |-> 0]
      ELSE after_loads(host, json_loads(run.stdout))

\* the classes "except Exception" catches
ExceptionClasses ==
  {"ErrorException", "NoDataException", "KeyError", "AssertionError",
   "JSONDecodeError", "OverflowError"}

\* what get_data makes of a _get_data that ended as r:
\* [value, raised, errors, warnings, host, dp]
Outcome(r, val, exc, errs) ==
  [value |-> val, raised |-> exc, errors |-> errs,
   warnings |-> r.warnings, host |-> r.host, dp |-> r.dp]

\* try_except without the clause "except Exception"
try_except_narrow(r) ==
  IF IsNone(r.exc) THEN Outcome(r, r.value, None, 0)
  ELSE IF r.exc = Some("NoDataException") THEN Outcome(r, None, None, 0)
  ELSE IF r.exc = Some("ErrorException") THEN Outcome(r, None, None, 1)
  ELSE Outcome(r, None, r.exc, 0)

\* the try statement of Service.get_data around r = self._get_data()
try_except(r) ==
  IF IsNone(r.exc) THEN Outcome(r, r.value, None, 0)
  ELSE IF r.exc = Some("NoDataException") THEN Outcome(r, None, None, 0)
  ELSE IF r.exc = Some("ErrorException") THEN Outcome(r, None, None, 1)
  ELSE IF The(r.exc) \in ExceptionClasses THEN Outcome(r, None, None, 1)
  ELSE Outcome(r, None, r.exc, 0)

\* Service.get_data
get_data(host, payload) == try_except(_get_data(host, payload))

(***************************************************************************)
(* sensors.chart.py.  The lm_sensors library yields a sequence of chips    *)
(*   [prefix, bus, addr, fails, features]                                  *)
(* where fails says that iterating raises SensorsError after this chip's   *)
(* name was read, and a feature is [type, name, label, read, v] with       *)
(* read = "ok" | "nosub" | "SensorsError" | "None".                        *)
(***************************************************************************)
ORDER == <<"temperature", "fan", "power", "voltage", "energy", "current", "humidity">>

CHARTS ==
  [temperature |-> [options |-> <<"Temperature", "Celsius", "temperature", "sensors.temperature", "line">>,
                    lines |-> <<"absolute", 1, 1000>>],
   voltage     |-> [options |-> <<"Voltage", "Volts", "voltage", "sensors.voltage", "line">>,
                    lines |-> <<"absolute", 1, 1000>>],
   current     |-> [options |-> <<"Current", "Ampere", "current", "sensors.current", "line">>,
                    lines |-> <<"absolute", 1, 1000>>],
   power       |-> [options |-> <<"Power", "Watt", "power", "sensors.power", "line">>,
                    lines |-> <<"absolute", 1, 1000>>],
   fan         |-> [options |-> <<"Fans speed", "Rotations/min", "fans", "sensors.fan", "line">>,
                    lines |-> <<"absolute", 1, 1000>>],
   energy      |-> [options |-> <<"Energy", "Joule", "energy", "sensors.energy", "line">>,
                    lines |-> <<"incremental", 1, 1000>>],
   humidity    |-> [options |-> <<"Humidity", "Percent", "humidity", "sensors.humidity", "line">>,
                    lines |-> <<"absolute", 1, 1000>>]]

LIMITS ==
  [temperature |-> <<-127, 1000>>, voltage |-> <<-400, 400>>,
   current |-> <<-127, 127>>, fan |-> <<0, 65535>>]

SKIP_WORDS ==
  [temperature |-> << <<"t","e","m","p","e","r","a","t","u","r","e">>, <<"t","e","m","p">> >>,
   fan |-> << <<"s","p","e","e","d">> >>,
   power |-> << <<"p","o","w","e","r">> >>,
   voltage |-> << <<"v","o","l","t","a","g","e">>, <<"r","a","i","l">> >>,
   current |-> << <<"c","u","r","r","e","n","t">> >>]

TYPE_MAP ==
  [t \in 0..6 |-> <<"voltage", "fan", "temperature", "power", "energy",
                    "current", "humidity">>[t + 1]]

\* [word for word in words if word.casefold() not in skip_words]
RECURSIVE DropFolded(_, _)
DropFolded(words, skip) ==
  IF words = <<>> THEN <<>>
  ELSE IF \E k \in 1..Len(skip) : skip[k] = casefold(Head(words))
       THEN DropFolded(Tail(words), skip)
       ELSE <<Head(words)>> \o DropFolded(Tail(words), skip)

\* _cleanup
_cleanup(feat_name, feat_type) ==
  IF feat_type \in DOMAIN SKIP_WORDS
  THEN join(<<" ">>, DropFolded(split(feat_name), SKIP_WORDS[feat_type]))
  ELSE feat_name

\* sensors.chip_snprintf_name
chip_snprintf_name(chip) == chip.prefix \o "-" \o chip.bus \o "-" \o chip.addr

\* seen[chip_name][feat_type].append((feat_name, feat_label)); seen is a
\* sequence of [chip_name, feat] and feat a sequence of [feat_type, sub_feat]
seen_append(seen, chip_name, feat_type, pair) ==
  [c \in 1..Len(seen) |->
     IF seen[c].chip_name # chip_name THEN seen[c]
     ELSE LET feat == seen[c].feat
          IN  [seen[c] EXCEPT !.feat =
                 IF \E k \in 1..Len(feat) : feat[k].feat_type = feat_type
                 THEN [k \in 1..Len(feat) |->
                         IF feat[k].feat_type = feat_type
                         THEN [feat[k] EXCEPT !.sub_feat = Append(@, pair)]
                         ELSE feat[k]]
                 ELSE Append(feat, [feat_type |-> feat_type, sub_feat |-> <<pair>>])]]

\* seen[chip_name] = defaultdict(list): a repeated name keeps its place
seen_reset(seen, chip_name) ==
  IF \E c \in 1..Len(seen) : seen[c].chip_name = chip_name
  THEN [c \in 1..Len(seen) |->
          IF seen[c].chip_name = chip_name THEN [seen[c] EXCEPT !.feat = <<>>]
          ELSE seen[c]]
  ELSE Append(seen, [chip_name |-> chip_name, feat |-> <<>>])

\* one iteration of "for feat in sensors.FeatureIterator(chip)" on
\* st = [seen, data, meta]
sensors_feature(st, chip_name, feat) ==
  IF feat.type \notin DOMAIN TYPE_MAP THEN st
  ELSE
    LET feat_type == TYPE_MAP[feat.type]
        feat_label == Str(_cleanup(feat.label, feat_type))
        id == chip_name \o "_" \o feat.name
        out_of_limits ==
          /\ feat_type \in DOMAIN LIMITS
          /\ \/ ~LeqInt(LIMITS[feat_type][1], feat.v)
             \/ ~GeqInt(LIMITS[feat_type][2], feat.v)
        listed == [st EXCEPT !.seen =
                     seen_append(@, chip_name, feat_type, <<feat.name, feat_label>>)]
    IN  IF feat.read # "ok" THEN st
        ELSE IF out_of_limits THEN listed
        ELSE [listed EXCEPT !.data =
                [k \in DOMAIN @ \cup {id} |->
                   IF k = id THEN int(Times(feat.v, Fraction(1000))) ELSE @[k]]]

RECURSIVE sensors_features(_, _, _, _)
sensors_features(st, chip_name, features, i) ==
  IF i > Len(features) THEN st
  ELSE sensors_features(sensors_feature(st, chip_name, features[i]),
                        chip_name, features, i + 1)

\* the loop "for chip in sensors.ChipIterator()"; exc is the SensorsError
RECURSIVE sensors_chips(_, _, _)
sensors_chips(st, chips, j) ==
  IF j > Len(chips) \/ ~IsNone(st.exc) THEN st
  ELSE
    LET chip == chips[j]
        chip_name == chip_snprintf_name(chip)
        named == [st EXCEPT
                    !.seen = seen_reset(@, chip_name),
                    !.meta = [n \in DOMAIN @ \cup {chip_name} |->
                                IF n = chip_name
                                THEN [name |-> chip_name, prefix |-> chip.prefix,
                                      address |-> chip.bus \o "-" \o chip.addr,
                                      bus |-> chip.bus]
                                ELSE @[n]]]
    IN  IF chip.fails THEN [named EXCEPT !.exc = Some("SensorsError")]
        ELSE sensors_chips(sensors_features(named, chip_name, chip.features, 1),
                           chips, j + 1)

\* Service.get_chart_priority
RECURSIVE order_index(_, _)
order_index(feat_type, i) ==
  IF i > Len(ORDER) THEN 0
  ELSE IF ORDER[i] = feat_type THEN i - 1 ELSE order_index(feat_type, i + 1)

get_chart_priority(feat_type) == priority + order_index(feat_type, 1)

\* the body of the inner loop of Service.update_sensors_charts
sensors_chart(host, chip_name, entry, meta) ==
  LET feat_type == entry.feat_type
      chart_id == chip_name \o "_" \o feat_type
      o == CHARTS[feat_type].options
      l == CHARTS[feat_type].lines
      params == [id |-> chart_id, title |-> o[1], units |-> o[2], family |-> o[3],
                 context |-> o[4], chart_type |-> o[5]]
      chip_labels == [sensor_id |-> meta[chip_name].name,
                      sensor_name |-> meta[chip_name].prefix,
                      sensor_bus |-> meta[chip_name].bus,
                      sensor_address |-> meta[chip_name].address]
      lines == [k \in 1..Len(entry.sub_feat) |->
                  [id |-> chip_name \o "_" \o entry.sub_feat[k][1],
                   name |-> entry.sub_feat[k][2], algorithm |-> l[1],
                   multiplier |-> l[2], divisor |-> l[3]]]
      added == add_chart(host, params, chip_labels)
      prio == [added EXCEPT !.charts[chart_id].params =
                 [f \in DOMAIN @ \cup {"priority"} |->
                    IF f = "priority" THEN get_chart_priority(feat_type) ELSE @[f]]]
  IN  IF feat_type \notin {ORDER[i] : i \in 1..Len(ORDER)}
         \/ feat_type \notin DOMAIN CHARTS
      THEN host
      ELSE IF HasChart(host, chart_id) THEN host
      ELSE add_dimensions(prio, chart_id, lines)

\* Service.update_sensors_charts, with the default configuration (no chips filter)
RECURSIVE update_sensors_charts(_, _, _, _, _)
update_sensors_charts(host, seen, meta, c, k) ==
  IF c > Len(seen) THEN host
  ELSE IF k > Len(seen[c].feat) THEN update_sensors_charts(host, seen, meta, c + 1, 1)
  ELSE update_sensors_charts(
         sensors_chart(host, seen[c].chip_name, seen[c].feat[k], meta),
         seen, meta, c, k + 1)

\* sensors Service.get_data once the loops have ended in st
sensors_after_loops(host, st) ==
  IF ~IsNone(st.exc)
  THEN [value |-> None, raised |-> None, errors |-> 1, warnings |-> 0,
        host |-> host, dp |-> <<>>]
  ELSE [value |-> IF DOMAIN st.data = {} THEN None ELSE Some(st.data),
        raised |-> None, errors |-> 0, warnings |-> 0,
        host |-> update_sensors_charts(host, st.seen, st.meta, 1, 1),
        dp |-> <<>>]

\* sensors Service.get_data: [value, raised, errors, warnings, host, dp]
sensors_get_data(host, chips_now) ==
  sensors_after_loops(host,
    sensors_chips([exc |-> None, seen |-> <<>>, data |-> NoCharts, meta |-> NoCharts],
                  chips_now, 1))

(***************************************************************************)
(* The hardware the backend reports on.  A rig names the device headers    *)
(* and the items one machine can report; a run of the model is one job     *)
(* (one Service instance of one of the two modules) on one rig.            *)
(***************************************************************************)
Num(n, d) == [num |-> n, den |-> d]

DevHeader(description, address) ==
  [description |-> description, address |-> address, bus |-> "hid", status |-> <<>>]

Item(key, unit, value) == [key |-> key, unit |-> unit, value |-> value]

\* "Kraken X" at /dev/hidraw1 and /dev/hidraw2, "kraken-x" at /dev/hidraw1
DevA == DevHeader(<<"K","r","a","k","e","n"," ","X">>, <<"/","d","e","v","/","h","i","d","r","a","w","1">>)
DevB == DevHeader(<<"K","r","a","k","e","n"," ","X">>, <<"/","d","e","v","/","h","i","d","r","a","w","2">>)
DevA2 == DevHeader(<<"k","r","a","k","e","n","-","x">>, <<"/","d","e","v","/","h","i","d","r","a","w","1">>)
\* a device record without "address"
DevNoAddress == [description |-> <<"K","r","a","k","e","n"," ","X">>, bus |-> "hid", status |-> <<>>]

KeyFan1Speed == <<"F","a","n"," ","1"," ","s","p","e","e","d">>
KeyFan1 == <<"F","a","n"," ","1">>
Keyfan1 == <<"f","a","n","1">>
KeyFan2 == <<"F","a","n"," ","2">>
KeyTemp1 == <<"T","e","m","p"," ","1">>
KeyTemp2 == <<"T","e","m","p"," ","2">>
KeyNoise == <<"N","o","i","s","e">>
KeyUptime == <<"U","p","t","i","m","e">>

Rigs ==
  [alias |->
     [headers |-> {DevA, DevA2},
      items |-> {Item(KeyFan1Speed, "rpm", Num(1200, 1)),
                 Item(Keyfan1, "rpm", Num(900, 1))}],
   range |->
     [headers |-> {DevA, DevB},
      items |-> {Item(KeyFan1Speed, "rpm", Num(1200, 1)),
                 Item(KeyFan1, "rpm", Num(20000, 1)),
                 Item(KeyNoise, "dB", Num(30, 1))}],
   temps |->
     [headers |-> {DevA},
      items |-> {Item(KeyFan1Speed, "rpm", Num(1200, 1)),
                 Item(KeyTemp1, "°C", Num(366, 10)),
                 Item(KeyTemp2, "°C", Num(-366006, 10000)),
                 Item(KeyTemp1, "°C", Num(500, 1))}],
   faults |->
     [headers |-> {DevA, DevNoAddress},
      items |-> {Item(KeyFan2, "rpm", Num(800, 1)),
                 Item(KeyUptime, "s", Inf),
                 [key |-> KeyFan2, unit |-> "rpm"]}]]

\* the ways a backend run can end before it reports a device:
\* an empty report, text that is not JSON, a non-zero exit, a failed exec
Reports ==
  {[proc |-> "ok", stdout |-> Some(<<>>)],
   [proc |-> "ok", stdout |-> None],
   [proc |-> "CalledProcessError", stdout |-> None],
   [proc |-> "OSError", stdout |-> None]}

Chip(prefix, bus, addr, fails) ==
  [prefix |-> prefix, bus |-> bus, addr |-> addr, fails |-> fails, features |-> <<>>]

Feature(type, name, label, read, v) ==
  [type |-> type, name |-> name, label |-> label, read |-> read, v |-> v]

SensorRigs ==
  [board |->
     [chips |-> {Chip("nct6775", "isa", "0290", FALSE),
                 Chip("k10temp", "pci", "00c3", TRUE)},
      features |-> {Feature(1, "fan1", KeyFan1Speed, "ok", Num(1200, 1)),
                    Feature(1, "fan2", KeyFan2, "ok", Num(70000, 1)),
                    Feature(2, "temp1", KeyTemp1, "SensorsError", Num(0, 1))}]]

(***************************************************************************)
(* State.                                                                  *)
(***************************************************************************)
VARIABLES
  job,          \* "liquidctl" | "sensors" | "normalize": what this run exercises
  rig,          \* the name of the rig of this run
  payload,      \* liquidctl: what `liquidctl status --json` reports now
  chips,        \* sensors: what the lm_sensors iterators yield now
  host,         \* self.charts of the job: [charts, calls]
  polled,       \* the fields below are those of a get_data call on this report
  value,        \* what get_data returned: None or Some(dimension id -> integer)
  raised,       \* the exception that left get_data: None or Some(class)
  errors,       \* self.error calls of that get_data
  warnings,     \* self.warning calls of that get_data
  data_points,  \* chart_builder.data_points when that _get_data ended
  norm_in,      \* the arguments [arg, proto] of one _normalize call
  norm_out      \* its result: None before the call, Some(slug) after

vars == <<job, rig, payload, chips, host, polled, value, raised, errors,
          warnings, data_points, norm_in, norm_out>>

NoHost == [charts |-> NoCharts, calls |-> NoCharts]

NoNorm == [arg |-> <<>>, proto |-> None]

Init ==
  /\ \/ job = "liquidctl" /\ rig \in DOMAIN Rigs
     \/ job = "sensors" /\ rig \in DOMAIN SensorRigs
  /\ payload = [proc |-> "ok", stdout |-> Some(<<>>)]
  /\ chips = <<>>
  /\ host = NoHost
  /\ polled = FALSE
  /\ value = None
  /\ raised = None
  /\ errors = 0
  /\ warnings = 0
  /\ data_points = <<>>
  /\ norm_in = NoNorm
  /\ norm_out = None

\* the report has changed: the last get_data's results are not of this report
Forget ==
  /\ polled' = FALSE
  /\ value' = None
  /\ raised' = None
  /\ errors' = 0
  /\ warnings' = 0
  /\ data_points' = <<>>

RECURSIVE Records(_)
Records(list) ==
  IF list = <<>> THEN 0
  ELSE 1 + Records(Tail(list))
         + (IF "status" \in DOMAIN Head(list) THEN Len(Head(list).status)
            ELSE IF "features" \in DOMAIN Head(list) THEN Len(Head(list).features)
            ELSE 0)

\* the backend is run anew and ends as r
BackendRun(r) ==
  /\ job = "liquidctl"
  /\ payload' = r
  /\ Forget
  /\ UNCHANGED <<job, rig, chips, host, norm_in, norm_out>>

\* the backend's report lists one more device
BackendDevice(h) ==
  /\ job = "liquidctl"
  /\ payload.proc = "ok" /\ ~IsNone(payload.stdout)
  /\ Records(The(payload.stdout)) < MaxRecords
  /\ payload' = [payload EXCEPT !.stdout = Some(Append(The(@), h))]
  /\ Forget
  /\ UNCHANGED <<job, rig, chips, host, norm_in, norm_out>>

\* the backend's report lists one more item of its last device
BackendItem(item) ==
  /\ job = "liquidctl"
  /\ payload.proc = "ok" /\ ~IsNone(payload.stdout)
  /\ LET list == The(payload.stdout)
     IN  /\ list # <<>>
         /\ "status" \in DOMAIN list[Len(list)]
         /\ Records(list) < MaxRecords
         /\ payload' = [payload EXCEPT !.stdout =
                          Some([list EXCEPT ![Len(list)].status = Append(@, item)])]
  /\ Forget
  /\ UNCHANGED <<job, rig, chips, host, norm_in, norm_out>>

\* the host's scheduler calls liquidctl Service.get_data
GetData ==
  /\ job = "liquidctl"
  /\ \E o \in {get_data(host, payload)} :
         /\ host' = o.host
         /\ value' = o.value
         /\ raised' = o.raised
         /\ errors' = o.errors
         /\ warnings' = o.warnings
         /\ data_points' = o.dp
  /\ polled' = TRUE
  /\ UNCHANGED <<job, rig, payload, chips, norm_in, norm_out>>

\* the machine's sensors are enumerated anew
SensorsReset ==
  /\ job = "sensors"
  /\ chips' = <<>>
  /\ Forget
  /\ UNCHANGED <<job, rig, payload, host, norm_in, norm_out>>

SensorsChip(c) ==
  /\ job = "sensors"
  /\ Records(chips) < MaxRecords
  /\ chips' = Append(chips, c)
  /\ Forget
  /\ UNCHANGED <<job, rig, payload, host, norm_in, norm_out>>

SensorsFeature(f) ==
  /\ job = "sensors"
  /\ chips # <<>>
  /\ Records(chips) < MaxRecords
  /\ chips' = [chips EXCEPT ![Len(chips)].features = Append(@, f)]
  /\ Forget
  /\ UNCHANGED <<job, rig, payload, host, norm_in, norm_out>>

\* the host's scheduler calls sensors Service.get_data
SensorsGetData ==
  /\ job = "sensors"
  /\ \E o \in {sensors_get_data(host, chips)} :
         /\ host' = o.host
         /\ value' = o.value
         /\ raised' = o.raised
         /\ errors' = o.errors
         /\ warnings' = o.warnings
         /\ data_points' = o.dp
  /\ polled' = TRUE
  /\ UNCHANGED <<job, rig, payload, chips, norm_in, norm_out>>

\* what the rig of this run can report
Headers == IF job = "liquidctl" THEN Rigs[rig].headers ELSE {}
Items == IF job = "liquidctl" THEN Rigs[rig].items ELSE {}
Chips == IF job = "sensors" THEN SensorRigs[rig].chips ELSE {}
Features == IF job = "sensors" THEN SensorRigs[rig].features ELSE {}

Next ==
  \/ \E r \in Reports : BackendRun(r)
  \/ \E h \in Headers : BackendDevice(h)
  \/ \E item \in Items : BackendItem(item)
  \/ GetData
  \/ SensorsReset
  \/ \E c \in Chips : SensorsChip(c)
  \/ \E f \in Features : SensorsFeature(f)
  \/ SensorsGetData

Spec == Init /\ [][Next]_vars

(***************************************************************************)
(* What a report holds, read off the report itself (not off the run of     *)
(* get_data): its devices, its readings and which of them are valid.       *)
(***************************************************************************)
Liquidctl == job = "liquidctl"

\* the device records of the report, none when the backend failed
DevicesOf(p) ==
  IF p.proc = "ok" /\ ~IsNone(p.stdout) THEN The(p.stdout) ELSE <<>>

DeviceComplete(d) == {"description", "address", "bus", "status"} \subseteq DOMAIN d

\* a reading whose unit is in the unit table
Classified(item) == "unit" \in DOMAIN item /\ item.unit \in DOMAIN INPUT_UNIT_FROM_STR

ProtoOf(item) == CHART_PROTO_FROM_TYPE[INPUT_UNIT_FROM_STR[item.unit].chart_type]

ItemComplete(item) ==
  "unit" \in DOMAIN item /\ (Classified(item) => {"key", "value"} \subseteq DOMAIN item)

\* a classified reading whose value is inside its prototype's [min, max]
InRange(item) ==
  LET lim == ProtoOf(item).limits
  IN  IsNone(lim)
      \/ (/\ IsFinite(item.value)
          /\ The(lim)[1] * item.value.den <= item.value.num
          /\ item.value.num <= The(lim)[2] * item.value.den)

Valid(item) == Classified(item) /\ InRange(item)

ChartIdOf(d, proto_name) == derive_device_id(d) \o "_" \o proto_name

SlugOf(item) == Str(_normalize(item.key, Some(ProtoOf(item))))

DimIdOf(d, item) == ChartIdOf(d, ProtoOf(item).name) \o "_" \o SlugOf(item)

\* the readings of a report: (device index, item index)
ReadingsOf(p) ==
  UNION {{<<j, i>> : i \in 1..Len(DevicesOf(p)[j].status)} :
           j \in 1..Len(DevicesOf(p))}

ValidReadings(p) ==
  {r \in ReadingsOf(p) : Valid(DevicesOf(p)[r[1]].status[r[2]])}

\* the valid readings of device d for one prototype, in the report's order
ValidOf(d, proto_name) ==
  LET Test(item) == Valid(item) /\ ProtoOf(item).name = proto_name
  IN  SelectSeq(d.status, Test)

ProtoNames == {CHART_PROTO[k].name : k \in 1..Len(CHART_PROTO)}

\* two device records of the report derive the same device id
DuplicateIds(p) ==
  \E j, k \in 1..Len(DevicesOf(p)) :
    /\ j < k
    /\ \A m \in 1..k : DeviceComplete(DevicesOf(p)[m])
    /\ derive_device_id(DevicesOf(p)[j]) = derive_device_id(DevicesOf(p)[k])

\* the last get_data ended without an exception
Completed == polled /\ errors = 0 /\ raised = None

\* the data points the builder holds, chart after chart
RECURSIVE CountPoints(_)
CountPoints(dp) ==
  IF dp = <<>> THEN 0 ELSE Len(Head(dp).data) + CountPoints(Tail(dp))

\* the dimension ids the host has received through add_dimension
Registered ==
  UNION {{host.charts[c].dimensions[k].id : k \in 1..Len(host.charts[c].dimensions)} :
           c \in DOMAIN host.charts}

(***************************************************************************)
(* C1.  The host's add_chart is called at most once per chart id, over any *)
(* sequence of polls of either module; and once a poll has built its       *)
(* charts, calling build_charts again on the same builder, with no submit  *)
(* in between, registers nothing.                                          *)
(***************************************************************************)
C1_AddChartOnce ==
  /\ \A id \in DOMAIN host.calls : host.calls[id] <= 1
  /\ (Liquidctl /\ Completed) => build_charts(host, data_points) = host

\* a poll saw a (device id, prototype name) pair whose chart an earlier poll
\* had registered with other dimensions, and registered nothing for it
C1_Witness ==
  /\ Liquidctl /\ Completed
  /\ \E k \in 1..Len(data_points) :
       LET id == make_chart_id(data_points[k].chart)
       IN  /\ id \in DOMAIN host.charts
           /\ host.calls[id] = 1
           /\ host.charts[id].dimensions
                # make_chart(data_points[k].chart, data_points[k].data).lines

(***************************************************************************)
(* C2.  A get_data on a report in which two device records derive the same *)
(* device id returns None, logs one error, lets no exception out and       *)
(* leaves the host's registry as it was, so that the following poll starts *)
(* from the state it would have started from without the failed poll.      *)
(***************************************************************************)
C2_DuplicateAbortsPoll ==
  [][(Liquidctl /\ polled' /\ DuplicateIds(payload'))
       => (/\ value' = None
           /\ errors' = 1
           /\ raised' = None
           /\ host' = host)]_vars

\* a failed poll on two different records with one id, after an earlier poll
\* had registered a chart
C2_Witness ==
  /\ Liquidctl /\ polled /\ DuplicateIds(payload)
  /\ value = None /\ errors = 1
  /\ \E j, k \in 1..Len(DevicesOf(payload)) :
       /\ DevicesOf(payload)[j].description # DevicesOf(payload)[k].description
       /\ DeviceComplete(DevicesOf(payload)[j]) /\ DeviceComplete(DevicesOf(payload)[k])
       /\ derive_device_id(DevicesOf(payload)[j]) = derive_device_id(DevicesOf(payload)[k])
  /\ DOMAIN host.charts # {}

(***************************************************************************)
(* C3.  In a poll that ends without an exception, the builder holds one    *)
(* data point per valid reading and none for any other reading (a reading  *)
(* of unknown unit or out of range is never submitted, and each is logged  *)
(* as one warning), and the keys of the value map are exactly the          *)
(* dimension ids of the valid readings.                                    *)
(***************************************************************************)
C3_DropsExactlyThatItem ==
  (Liquidctl /\ Completed) =>
    LET devs == DevicesOf(payload)
        valid == ValidReadings(payload)
    IN  /\ CountPoints(data_points) = Cardinality(valid)
        /\ warnings = Cardinality(ReadingsOf(payload)) - Cardinality(valid)
        /\ \A k \in 1..Len(data_points) :
             \E j \in 1..Len(devs) :
               /\ data_points[k].chart.device.id = derive_device_id(devs[j])
               /\ [m \in 1..Len(data_points[k].data) |->
                     <<data_points[k].data[m].dim_label, data_points[k].data[m].value>>]
                  = [m \in 1..Len(ValidOf(devs[j], data_points[k].chart.proto.name)) |->
                       <<Str(ValidOf(devs[j], data_points[k].chart.proto.name)[m].key),
                         ValidOf(devs[j], data_points[k].chart.proto.name)[m].value>>]
        /\ IF valid = {} THEN value = None
           ELSE /\ value # None
                /\ DOMAIN The(value)
                     = {DimIdOf(devs[r[1]], devs[r[1]].status[r[2]]) : r \in valid}

\* C3 as stated: moreover the dimension id of a dropped reading is no key of
\* the value map
C3_AsStated ==
  /\ C3_DropsExactlyThatItem
  /\ (Liquidctl /\ Completed /\ value # None) =>
       \A r \in ReadingsOf(payload) \ ValidReadings(payload) :
         LET d == DevicesOf(payload)[r[1]]
         IN  Classified(d.status[r[2]])
               => DimIdOf(d, d.status[r[2]]) \notin DOMAIN The(value)

\* the integer nearest to the rational v, halves away from zero
RoundNearest(v) ==
  IF v.num >= 0 THEN (2 * v.num + v.den) \div (2 * v.den)
  ELSE 0 - ((2 * (0 - v.num) + v.den) \div (2 * v.den))

\* the data points whose dimension id no other data point of the poll has
Unaliased(pts) ==
  {j \in 1..Len(pts) : \A m \in 1..Len(pts) : pts[m].id = pts[j].id => m = j}

(***************************************************************************)
(* C4.  In a poll that returns a value map, the map gives the dimension id *)
(* of every data point with value v, in a chart of store ratio r, the      *)
(* integer nearest to v * r, also for negative and fractional-millis       *)
(* values.                                                                 *)
(***************************************************************************)
C4_NearestInteger ==
  (Liquidctl /\ Completed /\ value # None) =>
    LET pts == Points(data_points, 1)
    IN  \A j \in Unaliased(pts) :
          The(value)[pts[j].id] = RoundNearest(pts[j].scaled)

\* no device of the report lists one item label twice
DistinctLabels(p) ==
  \A j \in 1..Len(DevicesOf(p)) :
    \A m, n \in 1..Len(DevicesOf(p)[j].status) :
      LET a == DevicesOf(p)[j].status[m]
          b == DevicesOf(p)[j].status[n]
      IN  ("key" \in DOMAIN a /\ "key" \in DOMAIN b /\ a.key = b.key) => m = n

(***************************************************************************)
(* C5.  In a poll that ends without an exception, on a report whose        *)
(* devices list no item label twice, no two data points accumulated under  *)
(* one chart have the same dimension id, and the value map has exactly one *)
(* entry per accepted reading.                                             *)
(***************************************************************************)
C5_UniqueDimensionIds ==
  (Liquidctl /\ Completed /\ DistinctLabels(payload)) =>
    /\ \A k \in 1..Len(data_points) :
         \A m, n \in 1..Len(data_points[k].data) :
           make_dim_id(data_points[k].chart, data_points[k].data[m])
             = make_dim_id(data_points[k].chart, data_points[k].data[n])
           => m = n
    /\ value # None => Cardinality(DOMAIN The(value)) = CountPoints(data_points)

(***************************************************************************)
(* C6.  No step of either module changes a chart the host has registered:  *)
(* the chart stays in the registry with the parameters, labels and         *)
(* dimensions of its first registration, whatever later polls submit.      *)
(***************************************************************************)
C6_ShapeIsFixed ==
  [][\A id \in DOMAIN host.charts :
       /\ id \in DOMAIN host'.charts
       /\ host'.charts[id] = host.charts[id]]_vars

\* a poll submitted more data points for a registered chart than the chart
\* has dimensions
C6_Witness ==
  /\ Liquidctl /\ Completed
  /\ \E k \in 1..Len(data_points) :
       /\ make_chart_id(data_points[k].chart) \in DOMAIN host.charts
       /\ Len(host.charts[make_chart_id(data_points[k].chart)].dimensions)
            < Len(data_points[k].data)

\* something of the report makes _get_data raise: the backend failed, its
\* output is no JSON, a record lacks a field it reads, two records derive
\* one device id, or an accepted reading is not finite
PollFaults(p) ==
  \/ p.proc # "ok"
  \/ p.stdout = None
  \/ \E j \in 1..Len(DevicesOf(p)) :
       \/ ~DeviceComplete(DevicesOf(p)[j])
       \/ \E i \in 1..Len(DevicesOf(p)[j].status) :
            LET item == DevicesOf(p)[j].status[i]
            IN  \/ ~ItemComplete(item)
                \/ Classified(item) /\ InRange(item) /\ ~IsFinite(item.value)
  \/ DuplicateIds(p)

PairsOf(p) ==
  {pair \in {<<DevicesOf(p)[j], pn>> : j \in 1..Len(DevicesOf(p)), pn \in ProtoNames} :
     ValidOf(pair[1], pair[2]) # <<>>}

(***************************************************************************)
(* C8.  A poll that starts from an empty registry and ends without an      *)
(* exception registers, with one add_chart each, exactly the charts of the *)
(* (device id, prototype name) pairs with a valid reading, each under the  *)
(* id made of the pair and with one dimension per valid reading of the     *)
(* pair, in the report's order; it returns None iff no reading is valid.   *)
(***************************************************************************)
C8_OneChartPerPair ==
  [][(Liquidctl /\ host = NoHost /\ polled' /\ errors' = 0 /\ raised' = None) =>
       /\ DOMAIN host'.charts
            = {ChartIdOf(pair[1], pair[2]) : pair \in PairsOf(payload')}
       /\ \A pair \in PairsOf(payload') :
            LET id == ChartIdOf(pair[1], pair[2])
                readings == ValidOf(pair[1], pair[2])
            IN  /\ host'.calls[id] = 1
                /\ [m \in 1..Len(host'.charts[id].dimensions) |->
                      host'.charts[id].dimensions[m].id]
                   = [m \in 1..Len(readings) |-> DimIdOf(pair[1], readings[m])]
       /\ (value' = None) <=> (PairsOf(payload') = {})]_vars

\* a poll registered two charts of one device, one of them with the two
\* dimensions of its two valid readings
C8_Witness ==
  /\ Liquidctl /\ Completed /\ value # None
  /\ DOMAIN host.charts = {ChartIdOf(pair[1], pair[2]) : pair \in PairsOf(payload)}
  /\ \E j \in 1..Len(DevicesOf(payload)) :
       LET d == DevicesOf(payload)[j]
       IN  /\ Cardinality({pn \in ProtoNames : ValidOf(d, pn) # <<>>}) >= 2
           /\ \E pn \in ProtoNames :
                /\ Len(ValidOf(d, pn)) = 2
                /\ Len(host.charts[ChartIdOf(d, pn)].dimensions) = 2

(***************************************************************************)
(* C10.  After any sequence of polls, every key of the value map that      *)
(* get_data returned is the id of a dimension the host has received for    *)
(* some chart.                                                             *)
(***************************************************************************)
C10_ValuesAreRegistered ==
  (Liquidctl /\ polled /\ value # None) => DOMAIN The(value) \subseteq Registered

(***************************************************************************)
(* One call of _normalize on its own: the label is any string of up to     *)
(* MaxLen characters of Alphabet, or up to MaxWords of SampleWords joined  *)
(* by one or two spaces; the prototype is absent, one with skip words, or  *)
(* one without.                                                            *)
(***************************************************************************)
Alphabet == {"a", "V", "1", ".", "+", " ", "\t"}

SampleWords ==
  {<<"F","a","n">>, <<"s","p","e","e","d">>, <<"1">>, <<"+","1","2",".","0","V">>,
   <<"V","I","N">>, <<"V","o","l","t","a","g","e">>, <<"R","a","i","l">>}

Labels ==
  UNION {[1..n -> Alphabet] : n \in 0..MaxLen}
    \cup {join(sep, words) :
            sep \in {<<" ">>, <<" ", " ">>},
            words \in UNION {[1..n -> SampleWords] : n \in 1..MaxWords}}

Protos ==
  {None} \cup {Some(CHART_PROTO[k]) :
                 k \in {k \in 1..Len(CHART_PROTO) :
                          CHART_PROTO[k].name \in {"fan", "voltage", "uptime"}}}

InitNorm ==
  /\ job = "normalize"
  /\ rig = "none"
  /\ payload = [proc |-> "ok", stdout |-> Some(<<>>)]
  /\ chips = <<>>
  /\ host = NoHost
  /\ polled = FALSE
  /\ value = None
  /\ raised = None
  /\ errors = 0
  /\ warnings = 0
  /\ data_points = <<>>
  /\ norm_in \in [arg : Labels, proto : Protos]
  /\ norm_out = None

\* r = Service._normalize(arg, proto)
Normalize ==
  /\ job = "normalize"
  /\ norm_out = None
  /\ norm_out' = Some(_normalize(norm_in.arg, norm_in.proto))
  /\ UNCHANGED <<job, rig, payload, chips, host, polled, value, raised, errors,
                 warnings, data_points, norm_in>>

NextNorm == Normalize

SpecNorm == InitNorm /\ [][NextNorm]_vars

(***************************************************************************)
(* The six steps of the normalizer, each stated position by position: what *)
(* every character of the step's input contributes to its output.          *)
(***************************************************************************)
RECURSIVE Concat(_)
Concat(pieces) ==
  IF pieces = <<>> THEN <<>> ELSE Head(pieces) \o Concat(Tail(pieces))

Alnum == Letters \cup Digits

\* step 1: every upper-case letter becomes its lower-case letter
StepFold(s) ==
  [p \in 1..Len(s) |-> IF s[p] \in DOMAIN FoldTable THEN FoldTable[s[p]] ELSE s[p]]

\* the whitespace-free token of s that starts at p
TokenAt(s, p) ==
  SubSeq(s, p, CHOOSE q \in p..Len(s) :
                 /\ \A m \in p..q : s[m] \notin Whitespace
                 /\ q = Len(s) \/ s[q + 1] \in Whitespace)

\* step 2: the tokens of s that are no filler word, one space between them
StepWords(s, filler) ==
  LET starts == {p \in 1..Len(s) :
                   s[p] \notin Whitespace /\ (p = 1 \/ s[p - 1] \in Whitespace)}
      kept == {p \in starts : TokenAt(s, p) \notin filler}
  IN  Concat([p \in 1..Len(s) |->
                IF p \notin kept THEN <<>>
                ELSE (IF \E q \in kept : q < p THEN <<" ">> ELSE <<>>)
                       \o TokenAt(s, p)])

\* step 3: a space between a letter and a digit goes
StepJoin(s) ==
  Concat([p \in 1..Len(s) |->
            IF /\ s[p] = " " /\ 1 < p /\ p < Len(s)
               /\ s[p - 1] \in Letters /\ s[p + 1] \in Digits
            THEN <<>> ELSE <<s[p]>>])

\* step 3 read as "whitespace": a run of whitespace between a letter and a
\* digit goes
StepJoinWhitespace(s) ==
  Concat([p \in 1..Len(s) |->
            IF \E a \in 2..p, b \in p..(Len(s) - 1) :
                 /\ \A m \in a..b : s[m] \in Whitespace
                 /\ s[a - 1] \in Letters /\ s[b + 1] \in Digits
            THEN <<>> ELSE <<s[p]>>])

\* step 4: a "+" before digits and points that end in "v" goes
StepPlus(s) ==
  Concat([p \in 1..Len(s) |->
            IF /\ s[p] = "+"
               /\ \E q \in (p + 2)..Len(s) :
                    s[q] = "v" /\ \A m \in (p + 1)..(q - 1) : s[m] \in Digits \cup {"."}
            THEN <<>> ELSE <<s[p]>>])

\* the "v" at q ends <digits>.<digits>v whose point is at p
PointOf(s, p, q) ==
  /\ 1 < p /\ p + 1 < q /\ q <= Len(s)
  /\ s[p] = "." /\ s[p - 1] \in Digits /\ s[q] = "v"
  /\ \A m \in (p + 1)..(q - 1) : s[m] \in Digits

\* step 5: the point of <digits>.<digits>v becomes "v" and the "v" goes
StepPoint(s) ==
  Concat([p \in 1..Len(s) |->
            IF \E q \in 1..Len(s) : PointOf(s, p, q) THEN <<"v">>
            ELSE IF \E q \in 1..Len(s) : PointOf(s, q, p) THEN <<>>
            ELSE <<s[p]>>])

\* step 6: a run of characters outside [a-z0-9] becomes one "-"
StepDash(s) ==
  Concat([p \in 1..Len(s) |->
            IF s[p] \in Alnum THEN <<s[p]>>
            ELSE IF p = 1 \/ s[p - 1] \in Alnum THEN <<"-">>
            ELSE <<>>])

\* the filler words a call has: those of the prototype, if it has any
FillerOf(proto) ==
  IF IsNone(proto) \/ IsNone(The(proto).skip_words) THEN None
  ELSE LET words == The(The(proto).skip_words)
       IN  Some({words[k] : k \in 1..Len(words)})

SixSteps(arg, filler) ==
  LET s1 == StepFold(arg)
      s2 == IF IsNone(filler) THEN s1 ELSE StepWords(s1, The(filler))
  IN  StepDash(StepPoint(StepPlus(StepJoin(s2))))

SixStepsAsStated(arg, filler) ==
  LET s1 == StepFold(arg)
      s2 == IF IsNone(filler) THEN s1 ELSE StepWords(s1, The(filler))
  IN  StepDash(StepPoint(StepPlus(StepJoinWhitespace(s2))))

\* the three labels the normalizer is documented with
Examples(arg, proto, out) ==
  /\ (Str(arg) = "Fan 1" /\ IsNone(proto)) => out = "fan1"
  /\ (Str(arg) = "+12.0V" /\ IsNone(proto)) => out = "12v0"
  /\ (Str(arg) = "VIN Voltage Rail" /\ ~IsNone(proto) /\ The(proto).name = "voltage")
       => out = "vin"

(***************************************************************************)
(* C9.  _normalize returns the result of the six steps in their order,     *)
(* where step 2 rejoins the kept tokens with single spaces and step 3      *)
(* joins a letter-sequence and a digit-sequence that exactly one space     *)
(* character separates; the three documented labels give "fan1", "12v0"    *)
(* and "vin".                                                              *)
(***************************************************************************)
C9_SixStepsInOrder ==
  norm_out # None =>
    /\ The(norm_out) = SixSteps(norm_in.arg, FillerOf(norm_in.proto))
    /\ Examples(norm_in.arg, norm_in.proto, Str(The(norm_out)))

\* C9 as stated: step 3 joins across any whitespace
C9_AsStated ==
  norm_out # None =>
    /\ The(norm_out) = SixStepsAsStated(norm_in.arg, FillerOf(norm_in.proto))
    /\ Examples(norm_in.arg, norm_in.proto, Str(The(norm_out)))

\* a label that loses a filler word and a "+", has its point replaced and
\* keeps one "-"
C9_Witness ==
  /\ norm_out # None
  /\ Str(norm_in.arg) = "Fan speed +12.0V"
  /\ FillerOf(norm_in.proto) = Some({<<"s","p","e","e","d">>})
  /\ Str(The(norm_out)) = "fan-12v0"

\* the report makes _get_data raise before it reaches build_charts: every
\* fault of PollFaults but a value that only int() rejects
AbortsBeforeBuild(p) ==
  \/ p.proc # "ok"
  \/ p.stdout = None
  \/ \E j \in 1..Len(DevicesOf(p)) :
       \/ ~DeviceComplete(DevicesOf(p)[j])
       \/ \E i \in 1..Len(DevicesOf(p)[j].status) :
            ~ItemComplete(DevicesOf(p)[j].status[i])
  \/ DuplicateIds(p)

(***************************************************************************)
(* C11.  A get_data that ends in an exception (it logs an error and        *)
(* returns None) leaves the host's registry exactly as it was before the   *)
(* poll, and no step of liquidctl removes a chart from the registry.       *)
(***************************************************************************)
C11_AbortedPollRegistersNothing ==
  [][Liquidctl =>
       /\ (polled' /\ errors' = 1) => host' = host
       /\ DOMAIN host.charts \subseteq DOMAIN host'.charts]_vars

\* the part of C11 that the code keeps: a poll that raises before
\* build_charts leaves the registry as it was, and nothing is removed
C11_AbortBeforeBuild ==
  [][Liquidctl =>
       /\ (polled' /\ AbortsBeforeBuild(payload')) => (errors' = 1 /\ host' = host)
       /\ DOMAIN host.charts \subseteq DOMAIN host'.charts]_vars

====
